---- MODULE Spec2Model ----
(***************************************************************************)
(* bexi.blockchain_monitor.BlockchainMonitor: the listen loop over the     *)
(* blocks of a ledger, the decomposition of a block into transactions and  *)
(* operations, the filter, the enrichment (account names, memo), the       *)
(* insert into the operation storage and the last-head-block checkpoint.   *)
(* One monitor process runs at a time; it may be killed between any two    *)
(* steps and constructed again against the same storage.                   *)
(***************************************************************************)
EXTENDS Integers, Sequences, FiniteSets, TLC

(* ------------------------------ bounds -------------------------------- *)

\* number of blocks of the (finite) ledger, numbered 1..MaxBlock
MaxBlock == 2

\* number of monitor instances constructed one after the other
MaxRuns == 2

(* ------------------------- python dict helpers ------------------------ *)

\* dict.update(u): the keys of u are added or overwritten
Update(d, u) ==
    [k \in (DOMAIN d) \cup (DOMAIN u) |-> IF k \in DOMAIN u THEN u[k] ELSE d[k]]

\* the python value None
None == "None"

\* start_block when the caller passes none (None)
NoStart == 0 - 1

\* dict.get(k) with default None
Get(d, k) == IF k \in DOMAIN d THEN d[k] ELSE None

(* --------------------------- the environment -------------------------- *)

\* config["bitshares"]["exchange_account_id"] = my_account["id"]
Me == "1.2.100"

\* another account that exists on the chain
Alice == "1.2.200"

\* an account id the chain does not know: Account(id) raises
Ghost == "1.2.999"

\* name of an existing account, as Account(id)["name"] returns it
AccountName(id) ==
    IF id = Me THEN "exchange" ELSE IF id = Alice THEN "alice" ELSE None

\* Account(id) raises AccountDoesNotExistsException
AccountFails(id) == id \notin {Me, Alice}

\* states of the pybitshares wallet: unlocked with the memo key, locked
\* with the memo key, and without the memo key (locked or not: the key
\* is looked up before anything is decrypted)
Wallets == {"unlocked", "nokey", "locked"}

\* what Signed_Transaction(**transaction) does with the dictionaries it is
\* handed besides computing the identifier: nothing, or (bitsharesbase's
\* Transfer) write the prefix into the memo dictionary of a transfer
Signers == {"pure", "marks_memo"}

\* bitshares.prefix: the main network and a test network
Prefixes == {"BTS", "TEST"}

(* operations as the ledger yields them: <<operation type id, payload>> *)

OpTransferIn == <<0, [from |-> Alice, to |-> Me, amount |-> 5, memo |-> [message |-> "good"]]>>

OpTransferOut == <<0, [from |-> Me, to |-> Alice, amount |-> 7]>>

OpTransferGarbled == <<0, [from |-> Alice, to |-> Me, amount |-> 1, memo |-> [message |-> "garbled"]]>>

OpTransferOther == <<0, [from |-> Alice, to |-> Ghost, amount |-> 2, memo |-> [message |-> "good"]]>>

OpTransferGhost == <<0, [from |-> Ghost, to |-> Me, amount |-> 3]>>

OpTransferToGhost == <<0, [from |-> Me, to |-> Ghost, amount |-> 6]>>

OpOverride == <<38, [issuer |-> Alice, from |-> Me, to |-> Alice, amount |-> 4]>>

OpAccountUpdate == <<6, [account |-> Me]>>

\* the operation lists of the transactions a block may carry
TxShapes ==
    << <<OpTransferIn>>,
       <<OpTransferIn, OpTransferOut>>,
       <<OpTransferOther, OpTransferGarbled>>,
       <<OpOverride, OpAccountUpdate>>,
       <<OpTransferGhost>>,
       <<OpTransferToGhost>> >>

\* the blocks a ledger may carry: the transactions of each, by shape;
\* the last one stands for a block without a "transactions" field
BlockShapes ==
    << <<2, 1>>, <<3>>, <<4>>, <<5, 1>>, <<6>>, <<0>> >>

\* the transaction at position i of block n; ref_block_num and expiration
\* are the signed fields that make a transaction's content unique
MakeTx(n, i, shape) ==
    [ref_block_num |-> n, expiration |-> 10 * n + i, operations |-> TxShapes[shape]]

\* block n as the ledger source yields it
MakeBlock(n, b) ==
    IF BlockShapes[b] = <<0>>
    THEN [block_num |-> n, timestamp |-> 3 * n]
    ELSE [block_num |-> n, timestamp |-> 3 * n,
          transactions |-> [i \in 1..Len(BlockShapes[b]) |->
                                MakeTx(n, i, BlockShapes[b][i])]]

\* the ledgers: one block shape per block number
Ledgers ==
    {[n \in 1..MaxBlock |-> MakeBlock(n, f[n])] :
        f \in [1..MaxBlock -> 1..Len(BlockShapes)]}

(* ------------------------ collaborators' functions -------------------- *)

\* bitsharesbase.operationids.getOperationNameForId
getOperationNameForId(id) ==
    IF id = 0 THEN "transfer"
    ELSE IF id = 6 THEN "account_update"
    ELSE IF id = 38 THEN "override_transfer"
    ELSE "unknown"

\* Signed_Transaction(**transaction).id: a digest of the signed fields
SignedTransactionId(transaction) ==
    <<transaction.ref_block_num, transaction.expiration, Len(transaction.operations)>>

\* the operation as the constructor of signer sg leaves it: the payload
\* dictionaries are those of the transaction, and a signer that marks
\* memos writes the prefix (the payload's, or the default) into the memo
\* dictionary of a transfer
SignedOperation(op, sg) ==
    IF sg = "marks_memo" /\ op[1] = 0 /\ "memo" \in DOMAIN op[2]
    THEN <<op[1],
           [op[2] EXCEPT !.memo =
               Update(@, [prefix |-> IF "prefix" \in DOMAIN op[2]
                                     THEN op[2].prefix ELSE "BTS"])]>>
    ELSE op

\* Signed_Transaction(**transaction): the identifier, and the transaction
\* dictionary as the constructor leaves it
SignedTransaction(transaction, sg) ==
    [id |-> SignedTransactionId(transaction),
     transaction |-> [transaction EXCEPT !.operations =
                         [i \in 1..Len(transaction.operations) |->
                             SignedOperation(transaction.operations[i], sg)]]]

\* Memo(...).decrypt(memo): the outcome for an encrypted memo and a wallet
MemoDecrypt(memo, w) ==
    IF w = "locked" THEN [raises |-> "WalletLocked", value |-> None]
    ELSE IF w = "nokey" THEN [raises |-> "MissingKeyError", value |-> None]
    ELSE IF memo.message = "garbled" THEN [raises |-> "ValueError", value |-> None]
    ELSE [raises |-> None, value |-> "thanks"]

\* self.bitshares.wallet.unlock(pwd) with the password of the wallet: a
\* locked wallet is unlocked; the keys the wallet holds stay what they are
WalletUnlock(w) == IF w = "locked" THEN "unlocked" ELSE w

\* the wallet of a new process: the unlocking of the process that ended
\* is gone with it
WalletLock(w) == IF w = "unlocked" THEN "locked" ELSE w

(* --------------------------- operation storage ------------------------ *)

\* storage.insert_operation: a second event with the key
\* (transaction_id, op_in_tx) raises DuplicateOperationException
insert_operation(st, operation) ==
    IF \E i \in 1..Len(st) :
            /\ st[i].transaction_id = operation.transaction_id
            /\ st[i].op_in_tx = operation.op_in_tx
    THEN [raises |-> "DuplicateOperationException", store |-> st]
    ELSE [raises |-> None, store |-> Append(st, operation)]

\* storage.get_last_head_block_num
get_last_head_block_num(cp) == cp

\* storage.set_last_head_block_num
set_last_head_block_num(cp, n) == n

(* ----------------------- BlockchainMonitor: functions ----------------- *)

\* operation_matches, checking the receiving side only
operation_matches_to_only(operation) ==
    /\ operation.op[1] = "transfer"
    /\ operation.op[2].to = Me

\* operation_matches, leaving out the operation type
operation_matches_any_type(operation) ==
    /\ "from" \in DOMAIN operation.op[2]
    /\ "to" \in DOMAIN operation.op[2]
    /\ \/ operation.op[2].from = Me
       \/ operation.op[2].to = Me

\* operation_matches: a transfer from or to the monitored account
operation_matches(operation) ==
    /\ operation.op[1] = "transfer"
    /\ \/ operation.op[2].from = Me
       \/ operation.op[2].to = Me

\* decode_memo: the decoded memo, or the exception it lets through
decode_memo(payload, w) ==
    IF "memo" \notin DOMAIN payload
    THEN [raises |-> None, value |-> ""]
    ELSE LET r == MemoDecrypt(payload.memo, w) IN
         IF r.raises = "MissingKeyError"
         THEN [raises |-> None, value |-> "!MEMO KEY MISSING!"]
         ELSE IF r.raises = "ValueError"
         THEN [raises |-> None, value |-> "!COULDN'T DECODE MEMO!"]
         ELSE r

\* get_tx_id putting the prefix into the payload of every operation
get_tx_id_marks_all(transaction, pfx, sg) ==
    LET marked == IF pfx # "BTS"
                  THEN [transaction EXCEPT !.operations =
                            [i \in 1..Len(transaction.operations) |->
                                <<transaction.operations[i][1],
                                  Update(transaction.operations[i][2],
                                         [prefix |-> pfx])>>]]
                  ELSE transaction
        signed == SignedTransaction(marked, sg)
    IN [transaction |-> signed.transaction, id |-> signed.id]

\* get_tx_id: the identifier, and the transaction as the call leaves it
get_tx_id(transaction, pfx, sg) ==
    LET first == transaction.operations[1]
        marked == IF pfx # "BTS"
                  THEN [transaction EXCEPT !.operations[1] =
                            <<first[1], Update(first[2], [prefix |-> pfx])>>]
                  ELSE transaction
        signed == SignedTransaction(marked, sg)
    IN [transaction |-> signed.transaction, id |-> signed.id]

\* the candidate event, numbering every operation 0
candidate_event_unnumbered(transaction, i) ==
    [block_num |-> Get(transaction, "block_num"),
     timestamp |-> Get(transaction, "timestamp"),
     expiration |-> Get(transaction, "expiration"),
     op_in_tx |-> 0,
     op |-> <<getOperationNameForId(transaction.operations[i][1]),
              transaction.operations[i][2]>>]

\* the candidate event, numbering the operations from 1
candidate_event_one_based(transaction, i) ==
    [block_num |-> Get(transaction, "block_num"),
     timestamp |-> Get(transaction, "timestamp"),
     expiration |-> Get(transaction, "expiration"),
     op_in_tx |-> i,
     op |-> <<getOperationNameForId(transaction.operations[i][1]),
              transaction.operations[i][2]>>]

\* the dictionary process_transaction hands to process_operation for the
\* operation at (1-based) position i of the transaction
candidate_event(transaction, i) ==
    [block_num |-> Get(transaction, "block_num"),
     timestamp |-> Get(transaction, "timestamp"),
     expiration |-> Get(transaction, "expiration"),
     op_in_tx |-> i - 1,
     op |-> <<getOperationNameForId(transaction.operations[i][1]),
              transaction.operations[i][2]>>]

\* postprocess_operation recording an unknown account under a placeholder
\* name instead of raising
postprocess_operation_placeholder(operation, w, st) ==
    LET payload == operation.op[2]
        memo == decode_memo(payload, w)
    IN IF memo.raises # None
       THEN [raises |-> memo.raises, store |-> st, duplicate |-> FALSE]
       ELSE LET event == Update(operation,
                             [from_name |-> AccountName(payload.from),
                              to_name |-> AccountName(payload.to),
                              decoded_memo |-> memo.value])
                ins == insert_operation(st, event)
            IN [raises |-> None, store |-> ins.store,
                duplicate |-> ins.raises = "DuplicateOperationException"]

\* postprocess_operation: names, memo, insert; a duplicate is passed over
postprocess_operation(operation, w, st) ==
    LET payload == operation.op[2] IN
    IF AccountFails(payload.from) \/ AccountFails(payload.to)
    THEN [raises |-> "AccountDoesNotExistsException", store |-> st, duplicate |-> FALSE]
    ELSE LET memo == decode_memo(payload, w) IN
         IF memo.raises # None
         THEN [raises |-> memo.raises, store |-> st, duplicate |-> FALSE]
         ELSE LET event == Update(operation,
                               [from_name |-> AccountName(payload.from),
                                to_name |-> AccountName(payload.to),
                                decoded_memo |-> memo.value])
                  ins == insert_operation(st, event)
              IN [raises |-> None, store |-> ins.store,
                  duplicate |-> ins.raises = "DuplicateOperationException"]

\* process_operation deriving the identifier only once the names are
\* resolved and the memo is decoded
process_operation_late(transaction, i, pfx, sg, w, st) ==
    IF ~ operation_matches(candidate_event(transaction, i))
    THEN [outcome |-> "dropped", raises |-> None, derived |-> 0,
          transaction |-> transaction, store |-> st]
    ELSE LET got == get_tx_id(transaction, pfx, sg)
             operation == Update(candidate_event(got.transaction, i),
                                 [transaction_id |-> got.id])
             post == postprocess_operation(operation, w, st)
         IN IF post.raises # None
            THEN [outcome |-> "raised", raises |-> post.raises, derived |-> 0,
                  transaction |-> transaction, store |-> st]
            ELSE [outcome |-> IF post.duplicate THEN "duplicate" ELSE "inserted",
                  raises |-> None, derived |-> 1,
                  transaction |-> got.transaction, store |-> post.store]

\* process_operation on the operation at position i of the transaction:
\* filter, identifier through tx_id_getter, postprocess_operation.  The
\* payload of the event is the payload object of the transaction, so it
\* is read after get_tx_id has run.
process_operation(transaction, i, pfx, sg, w, st) ==
    IF ~ operation_matches(candidate_event(transaction, i))
    THEN [outcome |-> "dropped", raises |-> None, derived |-> 0,
          transaction |-> transaction, store |-> st]
    ELSE LET got == get_tx_id(transaction, pfx, sg)
             operation == Update(candidate_event(got.transaction, i),
                                 [transaction_id |-> got.id])
             post == postprocess_operation(operation, w, st)
         IN [outcome |-> IF post.raises # None THEN "raised"
                         ELSE IF post.duplicate THEN "duplicate" ELSE "inserted",
             raises |-> post.raises, derived |-> 1,
             transaction |-> got.transaction, store |-> post.store]

\* __init__, lines 104-110: the start block of the instance for the
\* start_block argument sb and the stored last head block number cp
resolve_start_block(sb, cp) ==
    IF sb <= 0
    THEN LET last_block == get_last_head_block_num(cp) IN
         IF last_block > 0 THEN last_block ELSE sb
    ELSE sb

\* Blockchain.blocks(start=...): the number of the first block yielded;
\* without a start the ledger source begins at its own default d
blocks_start(start, d) == IF start <= 0 THEN d ELSE start

\* block.get("transactions", [])
transactions_of(blk) ==
    IF "transactions" \in DOMAIN blk THEN blk.transactions ELSE << >>

(* -------------------------------- state ------------------------------- *)

VARIABLES
    ledger,       \* the blocks of the chain, by number
    prefix,       \* bitshares.prefix of the connected network
    signer,       \* what Signed_Transaction does with the dictionaries
    default_start,\* block a stream requested without a start begins at
    checkpoint,   \* storage: last head block number
    store,        \* storage: the inserted operations, in insertion order
    pc,           \* position of the monitor process
    wallet,       \* state of the pybitshares wallet
    start_block,  \* self.start_block
    requested,    \* start passed to Blockchain.blocks by listen
    next,         \* number of the block the stream yields next
    block,        \* the block listen is processing
    txi,          \* position of the transaction process_block is at
    opi,          \* position of the operation process_transaction is at
    derived,      \* calls of get_tx_id for the current transaction
    runs,         \* instances constructed so far
    forced,       \* some run was not that of a new instance without a start block
    resumed,      \* last head block number read by __init__ (NoStart: not read)
    given,        \* the start_block argument of this instance
    before,       \* operations handed to process_operation by earlier runs
    now,          \* operations handed to process_operation by this run
    written,      \* block numbers this run has written as checkpoint
    last          \* the last call of process_operation of this run

vars == <<ledger, prefix, signer, default_start, checkpoint, store, pc, wallet, start_block, requested,
          next, block, txi, opi, derived, runs, forced, resumed, given, before,
          now, written, last>>

NoBlock == [block_num |-> 0, timestamp |-> 0]

NoCall == [n |-> 0, t |-> 0, o |-> 0, outcome |-> "none", raises |-> None,
           existed |-> FALSE]

Init ==
    /\ ledger \in Ledgers
    /\ prefix \in Prefixes
    /\ signer \in Signers
    /\ default_start \in 1..MaxBlock
    /\ checkpoint = 0
    /\ store = << >>
    /\ pc = "none"
    /\ wallet \in Wallets
    /\ start_block = NoStart
    /\ requested = NoStart
    /\ next = 0
    /\ block = NoBlock
    /\ txi = 0
    /\ opi = 0
    /\ derived = 0
    /\ runs = 0
    /\ forced = FALSE
    /\ resumed = NoStart
    /\ given = NoStart
    /\ before = {}
    /\ now = {}
    /\ written = {}
    /\ last = NoCall

(* ------------------------------- actions ------------------------------ *)

\* BlockchainMonitor(start_block=sb) on the storage as it is, whenever
\* the process is not inside listen
Construct(sb) ==
    /\ pc \in {"none", "constructed", "stopped", "raised", "killed"}
    /\ runs < MaxRuns
    /\ runs' = runs + 1
    /\ start_block' = resolve_start_block(sb, checkpoint)
    /\ resumed' = IF sb <= 0 THEN get_last_head_block_num(checkpoint) ELSE NoStart
    /\ given' = sb
    /\ forced' = (forced \/ sb > 0)
    /\ before' = before \cup now
    /\ now' = {}
    /\ written' = {}
    /\ last' = NoCall
    /\ block' = NoBlock
    /\ txi' = 0
    /\ opi' = 0
    /\ derived' = 0
    /\ requested' = NoStart
    /\ next' = 0
    /\ pc' = "constructed"
    /\ UNCHANGED <<ledger, prefix, signer, default_start, wallet, checkpoint, store>>

\* unlock_wallet(pwd), called on the instance while it is not in listen
unlock_wallet ==
    /\ pc \in {"constructed", "stopped", "raised"}
    /\ wallet' = WalletUnlock(wallet)
    /\ UNCHANGED <<ledger, prefix, signer, default_start, checkpoint, store, pc, start_block,
                   requested, next, block, txi, opi, derived, runs, forced,
                   resumed, given, before, now, written, last>>

\* listen: the block stream is requested from the ledger source, from
\* self.start_block as __init__ left it; the instance may be a new one or
\* one whose listen has returned or raised before
Listen ==
    /\ pc \in {"constructed", "stopped", "raised"}
    /\ IF pc = "constructed"
       THEN UNCHANGED <<forced, before, now, written, last, block, txi, opi,
                        derived>>
       ELSE /\ forced' = TRUE
            /\ before' = before \cup now
            /\ now' = {}
            /\ written' = {}
            /\ last' = NoCall
            /\ block' = NoBlock
            /\ txi' = 0
            /\ opi' = 0
            /\ derived' = 0
    /\ requested' = start_block
    /\ next' = blocks_start(start_block, default_start)
    /\ pc' = "listening"
    /\ UNCHANGED <<ledger, prefix, signer, default_start, checkpoint, store, wallet, start_block,
                   runs, resumed, given>>

\* NextBlock, storing the block's number before process_block
NextBlock_checkpoint_first ==
    /\ pc = "listening"
    /\ IF next \in 1..MaxBlock
       THEN /\ block' = ledger[next]
            /\ txi' = 1
            /\ pc' = "block"
            /\ checkpoint' = set_last_head_block_num(checkpoint, next)
            /\ written' = written \cup {next}
       ELSE /\ pc' = "stopped"
            /\ UNCHANGED <<block, txi, checkpoint, written>>
    /\ UNCHANGED <<ledger, prefix, signer, default_start, store, wallet, start_block,
                   requested, next, opi, derived, runs, forced, resumed, given, before,
                   now, last>>

\* NextBlock with a stream that has no stop block: at the head of the
\* chain it waits for blocks instead of ending
NextBlock_no_stop ==
    /\ pc = "listening"
    /\ IF next \in 1..MaxBlock
       THEN /\ block' = ledger[next]
            /\ txi' = 1
            /\ pc' = "block"
       ELSE /\ pc' = "listening"
            /\ UNCHANGED <<block, txi>>
    /\ UNCHANGED <<ledger, prefix, signer, default_start, checkpoint, store, wallet, start_block,
                   requested, next, opi, derived, runs, forced, resumed, given, before,
                   now, written, last>>

\* listen: the stream yields the next block, or ends
NextBlock ==
    /\ pc = "listening"
    /\ IF next \in 1..MaxBlock
       THEN /\ block' = ledger[next]
            /\ txi' = 1
            /\ pc' = "block"
       ELSE /\ pc' = "stopped"
            /\ UNCHANGED <<block, txi>>
    /\ UNCHANGED <<ledger, prefix, signer, default_start, checkpoint, store, wallet, start_block,
                   requested, next, opi, derived, runs, forced, resumed, given, before,
                   now, written, last>>

\* process_block: the next transaction gets the block's number and
\* timestamp and goes to process_transaction
BeginTransaction ==
    /\ pc = "block"
    /\ txi <= Len(transactions_of(block))
    /\ block' = [block EXCEPT !.transactions[txi] =
                    Update(@, [block_num |-> Get(block, "block_num"),
                               timestamp |-> Get(block, "timestamp")])]
    /\ opi' = 1
    /\ derived' = 0
    /\ pc' = "tx"
    /\ UNCHANGED <<ledger, prefix, signer, default_start, checkpoint, store, wallet, start_block,
                   requested, next, txi, runs, forced, resumed, given, before, now,
                   written, last>>

\* process_transaction: the next operation goes through process_operation
ProcessOperation ==
    /\ pc = "tx"
    /\ opi <= Len(block.transactions[txi].operations)
    /\ LET tx == block.transactions[txi]
           r == process_operation(tx, opi, prefix, signer, wallet, store)
       IN /\ store' = r.store
          /\ block' = [block EXCEPT !.transactions[txi] = r.transaction]
          /\ derived' = derived + r.derived
          /\ now' = now \cup {<<block.block_num, txi, opi>>}
          /\ last' = [n |-> block.block_num, t |-> txi, o |-> opi,
                      outcome |-> r.outcome, raises |-> r.raises,
                      existed |-> \E k \in 1..Len(store) :
                                     /\ store[k].transaction_id = SignedTransactionId(tx)
                                     /\ store[k].op_in_tx = opi - 1]
          /\ IF r.outcome = "raised"
             THEN pc' = "raised" /\ opi' = opi
             ELSE pc' = "tx" /\ opi' = opi + 1
    /\ UNCHANGED <<ledger, prefix, signer, default_start, checkpoint, wallet, start_block, requested,
                   next, txi, runs, forced, resumed, given, before, written>>

\* process_transaction returns: process_block goes to the next transaction
EndTransaction ==
    /\ pc = "tx"
    /\ opi > Len(block.transactions[txi].operations)
    /\ txi' = txi + 1
    /\ pc' = "block"
    /\ UNCHANGED <<ledger, prefix, signer, default_start, checkpoint, store, wallet, start_block,
                   requested, next, block, opi, derived, runs, forced, resumed, given,
                   before, now, written, last>>

\* SetCheckpoint, going on to the next block without storing the number
SetCheckpoint_skipped ==
    /\ pc = "block"
    /\ txi > Len(transactions_of(block))
    /\ next' = next + 1
    /\ pc' = "listening"
    /\ UNCHANGED <<ledger, prefix, signer, default_start, checkpoint, store, wallet, start_block,
                   requested, block, txi, opi, derived, runs, forced, resumed,
                   given, before, now, written, last>>

\* SetCheckpoint, storing the number only of a block that had transactions
SetCheckpoint_nonempty ==
    /\ pc = "block"
    /\ txi > Len(transactions_of(block))
    /\ IF Len(transactions_of(block)) > 0
       THEN /\ checkpoint' = set_last_head_block_num(checkpoint, block.block_num)
            /\ written' = written \cup {block.block_num}
       ELSE UNCHANGED <<checkpoint, written>>
    /\ next' = next + 1
    /\ pc' = "listening"
    /\ UNCHANGED <<ledger, prefix, signer, default_start, store, wallet, start_block, requested, block,
                   txi, opi, derived, runs, forced, resumed, given, before, now,
                   last>>

\* SetCheckpoint after a process_block that raises on a block without a
\* "transactions" field
SetCheckpoint_strict ==
    /\ pc = "block"
    /\ txi > Len(transactions_of(block))
    /\ IF "transactions" \in DOMAIN block
       THEN /\ checkpoint' = set_last_head_block_num(checkpoint, block.block_num)
            /\ written' = written \cup {block.block_num}
            /\ next' = next + 1
            /\ pc' = "listening"
       ELSE /\ pc' = "raised"
            /\ UNCHANGED <<checkpoint, written, next>>
    /\ UNCHANGED <<ledger, prefix, signer, default_start, store, wallet, start_block, requested, block,
                   txi, opi, derived, runs, forced, resumed, given, before, now,
                   last>>

\* listen: process_block has returned, the block's number is stored
SetCheckpoint ==
    /\ pc = "block"
    /\ txi > Len(transactions_of(block))
    /\ checkpoint' = set_last_head_block_num(checkpoint, block.block_num)
    /\ written' = written \cup {block.block_num}
    /\ next' = next + 1
    /\ pc' = "listening"
    /\ UNCHANGED <<ledger, prefix, signer, default_start, store, wallet, start_block, requested, block,
                   txi, opi, derived, runs, forced, resumed, given, before, now, last>>

\* the process is killed between two steps, or ends after listen has
\* returned or raised; a wallet it had unlocked is locked for the next one
Crash ==
    /\ pc \in {"constructed", "listening", "block", "tx", "stopped", "raised"}
    /\ pc' = "killed"
    /\ wallet' = WalletLock(wallet)
    /\ UNCHANGED <<ledger, prefix, signer, default_start, checkpoint, store,
                   start_block, requested, next, block, txi, opi, derived, runs,
                   forced, resumed, given, before, now, written, last>>

Next ==
    \/ \E sb \in {NoStart} \cup (0..MaxBlock) : Construct(sb)
    \/ unlock_wallet
    \/ Listen
    \/ NextBlock
    \/ BeginTransaction
    \/ ProcessOperation
    \/ EndTransaction
    \/ SetCheckpoint
    \/ Crash

Spec == Init /\ [][Next]_vars

\* the steps of the loops of listen, process_block and process_transaction
Loop ==
    \/ NextBlock
    \/ BeginTransaction
    \/ EndTransaction
    \/ SetCheckpoint

\* the steps of listen
Run ==
    \/ Listen
    \/ Loop
    \/ ProcessOperation

\* runs that are not killed
NextAlive ==
    \/ \E sb \in {NoStart} \cup (0..MaxBlock) : Construct(sb)
    \/ unlock_wallet
    \/ Run

\* process_transaction is in its loop with an operation left: the call of
\* process_operation is the next statement, it always returns or raises,
\* and either way the step changes opi or pc
ProcessOperationEnabled ==
    /\ pc = "tx"
    /\ opi <= Len(block.transactions[txi].operations)

\* a monitor that is not killed goes on with the loop it is in (nothing
\* makes the caller construct, unlock or call listen); the second
\* condition is WF_vars(ProcessOperation) written out with the guard of
\* the step, which is when the step is enabled
LiveSpec ==
    /\ Init /\ [][NextAlive]_vars
    /\ WF_vars(Loop)
    /\ ([]<>(~ ProcessOperationEnabled) \/ []<><<ProcessOperation>>_vars)

(* ------------------------------ properties ---------------------------- *)

\* an operation of the ledger is a transfer from or to the monitored account
Touches(operation) ==
    /\ operation[1] = 0
    /\ \/ operation[2].from = Me
       \/ operation[2].to = Me

\* positions of the operations of a transaction the monitor is to record
MatchingOps(transaction) ==
    {i \in 1..Len(transaction.operations) : Touches(transaction.operations[i])}

\* the records of the storage with the key of operation o of transaction
\* t of block n
Records(n, t, o) ==
    {k \in 1..Len(store) :
        /\ store[k].transaction_id = SignedTransactionId(ledger[n].transactions[t])
        /\ store[k].op_in_tx = o - 1}

\* positions <<t, o>> of the operations of block n
OpsOf(n) ==
    {p \in (1..3) \X (1..3) :
        /\ p[1] <= Len(transactions_of(ledger[n]))
        /\ p[2] <= Len(ledger[n].transactions[p[1]].operations)}

\* every operation of block n went through process_operation in this run,
\* and those to record are in the storage
Handled(n) ==
    \A p \in OpsOf(n) :
        /\ <<n, p[1], p[2]>> \in now
        /\ Touches(ledger[n].transactions[p[1]].operations[p[2]])
              => Records(n, p[1], p[2]) # {}

\* process_transaction has gone through all operations of the transaction
TxComplete ==
    /\ pc = "tx"
    /\ opi > Len(block.transactions[txi].operations)

\* the operation process_transaction is at, as the ledger yielded it
CurrentOp == ledger[block.block_num].transactions[txi].operations[opi]

\* C1 as claimed: a completed transaction with at least one matching
\* operation has had its identifier derived exactly once
C1_once_per_transaction ==
    (TxComplete /\ MatchingOps(block.transactions[txi]) # {}) => derived = 1

\* C2: while a transaction without a matching operation is processed,
\* get_tx_id is never called
C2_no_match_no_derivation ==
    (pc = "tx" /\ MatchingOps(block.transactions[txi]) = {}) => derived = 0

C2_witness ==
    /\ TxComplete
    /\ Len(block.transactions[txi].operations) = 2
    /\ MatchingOps(block.transactions[txi]) = {}
    /\ derived = 0

\* C3 as claimed: in no state of a run is the checkpoint the number of the
\* block being processed while operations of it are unhandled in this run
C3_checkpoint_never_on_open_block ==
    (pc \in {"block", "tx"} /\ block.block_num = checkpoint) => Handled(checkpoint)

\* C3, amended: a run writes the number of block N as checkpoint only after
\* every operation of N went through the filter in this run and the
\* matching ones are in the storage
C3_written_after_handled ==
    /\ \A n \in written : Handled(n)
    /\ (pc \in {"listening", "block", "tx"} /\ written # {}) => checkpoint \in written

C3_witness ==
    /\ pc = "listening"
    /\ checkpoint \in written
    /\ Cardinality(OpsOf(checkpoint)) = 3
    /\ Len(store) >= 3

\* C4 as claimed: over any sequence of runs on the same storage, whatever
\* start block they are given, the stored checkpoint never decreases
C4_checkpoint_never_decreases ==
    [][checkpoint' >= checkpoint]_vars

\* C5 as claimed: an instance constructed without a start block on a
\* storage whose last head block number C is greater than zero requests
\* the stream from C + 1; with C = 0 it passes no start block on
C5_resumes_after_checkpoint ==
    (pc = "listening" /\ resumed # NoStart) =>
        IF resumed > 0 THEN requested = resumed + 1 ELSE requested <= 0

\* the keys (transaction_id, op_in_tx) of the storage are pairwise distinct
UniqueKeys ==
    \A j, k \in 1..Len(store) :
        (/\ store[j].transaction_id = store[k].transaction_id
         /\ store[j].op_in_tx = store[k].op_in_tx) => j = k

\* C6 as claimed: an operation whose key is already in the storage and
\* that is delivered again leaves the storage with one record for the
\* key; the delivery ends as a duplicate that does not get out of
\* postprocess_operation, the run is not aborted, and once the block is
\* done the checkpoint is the block's number
C6_duplicate_is_passed_over ==
    /\ UniqueKeys
    /\ last.raises # "DuplicateOperationException"
    /\ last.existed =>
          /\ Cardinality(Records(last.n, last.t, last.o)) = 1
          /\ last.outcome = "duplicate"
          /\ pc # "raised"
          /\ (pc = "listening" /\ next = last.n + 1) => checkpoint = last.n

\* every operation to be recorded of the blocks the streams yield, which
\* are those from the ledger source's default start on, has exactly one
\* record, no other operation has one, and every record is that of such
\* an operation
ExactlyOnce ==
    /\ \A n \in 1..MaxBlock : \A p \in OpsOf(n) :
          Cardinality(Records(n, p[1], p[2])) =
             IF /\ n >= default_start
                /\ Touches(ledger[n].transactions[p[1]].operations[p[2]])
             THEN 1 ELSE 0
    /\ \A k \in 1..Len(store) :
          \E n \in 1..MaxBlock : \E p \in OpsOf(n) :
             /\ k \in Records(n, p[1], p[2])
             /\ Touches(ledger[n].transactions[p[1]].operations[p[2]])
             /\ store[k].op[2].from = ledger[n].transactions[p[1]].operations[p[2]][2].from
             /\ store[k].op[2].to = ledger[n].transactions[p[1]].operations[p[2]][2].to

\* C7: when a run has drained the stream, after any crashes and restarts
\* without a start block, the storage holds exactly one record for every
\* matching operation of the processed blocks and none for any other
C7_exactly_once_when_drained ==
    (pc = "stopped" /\ ~ forced) => ExactlyOnce

C7_witness ==
    /\ pc = "stopped"
    /\ ~ forced
    /\ runs >= 2
    /\ before \cap now # {}
    /\ Len(store) >= 3
    /\ ExactlyOnce

\* C8 as claimed: after a restart without a start block, the operations
\* this run processes again all belong to at most one block
C8_at_most_one_block_again ==
    ~ forced => Cardinality({x[1] : x \in before \cap now}) <= 1

\* C9: operation_matches is true of the candidate event exactly when the
\* operation the ledger yielded has type id 0 (transfer) and the monitored
\* account as its from or to, and process_operation on any other operation
\* inserts nothing, derives no identifier and raises nothing
C9_filter ==
    /\ [](pc = "tx" =>
            \A i \in 1..Len(block.transactions[txi].operations) :
                operation_matches(candidate_event(block.transactions[txi], i))
                    <=> Touches(ledger[block.block_num].transactions[txi].operations[i]))
    /\ [][(pc = "tx" /\ now' # now /\ ~ Touches(CurrentOp))
          => (/\ last'.outcome = "dropped"
              /\ store' = store
              /\ derived' = derived
              /\ block' = block
              /\ pc' = "tx")]_vars

C9_witness ==
    /\ pc = "tx"
    /\ last.outcome = "dropped"
    /\ ledger[last.n].transactions[last.t].operations[last.o] = OpOverride
    /\ derived = 0

\* the payload of the operation of the last process_operation call
LastPayload == ledger[last.n].transactions[last.t].operations[last.o][2]

\* C10 as claimed: a matching operation whose memo cannot be decoded for
\* want of the key, for want of a memo or because it is undecryptable is
\* inserted with the sentinel of its case, "!NO MEMO PROVIDED!" for a
\* payload without memo, and with the plaintext when decoding succeeds
C10_memo_sentinels ==
    last.outcome = "inserted" =>
        store[Len(store)].decoded_memo =
            IF "memo" \notin DOMAIN LastPayload THEN "!NO MEMO PROVIDED!"
            ELSE IF wallet = "nokey" THEN "!MEMO KEY MISSING!"
            ELSE IF LastPayload.memo.message = "garbled" THEN "!COULDN'T DECODE MEMO!"
            ELSE "thanks"

\* the operation of the last process_operation call, as the ledger has it
LastOp == ledger[last.n].transactions[last.t].operations[last.o]

\* C11 as claimed: whatever makes the decryption of the memo of a matching
\* operation fail, a locked wallet included, the event is inserted with the
\* decode-failed sentinel and the run goes on
C11_any_memo_failure_is_a_sentinel ==
    (/\ last.outcome # "none"
     /\ Touches(LastOp)
     /\ "memo" \in DOMAIN LastOp[2]
     /\ ~ AccountFails(LastOp[2].from)
     /\ ~ AccountFails(LastOp[2].to))
    => /\ last.outcome \in {"inserted", "duplicate"}
       /\ pc # "raised"
       /\ wallet = "locked" =>
             \A k \in Records(last.n, last.t, last.o) :
                 store[k].decoded_memo = "!COULDN'T DECODE MEMO!"

\* the records of the storage that come from transaction t of block n
RecordsOfTx(n, t) ==
    {k \in 1..Len(store) :
        /\ store[k].block_num = n
        /\ store[k].expiration = ledger[n].transactions[t].expiration}

\* C12: a record holds as op_in_tx the 0-based position of its operation
\* in the transaction the ledger yielded (it has that operation's sides
\* and amount, and the operation is one to record); the records of one
\* transaction have one transaction_id and pairwise distinct op_in_tx; and
\* no two records of the storage have the same key
C12_op_in_tx_is_the_position ==
    /\ UniqueKeys
    /\ last.outcome = "inserted" =>
          /\ store[Len(store)].block_num = last.n
          /\ store[Len(store)].op_in_tx = last.o - 1
    /\ \A n \in 1..MaxBlock : \A t \in 1..Len(transactions_of(ledger[n])) :
          \A j, k \in RecordsOfTx(n, t) :
              /\ store[j].transaction_id = store[k].transaction_id
              /\ j # k => store[j].op_in_tx # store[k].op_in_tx
              /\ store[k].op_in_tx + 1 \in MatchingOps(ledger[n].transactions[t])
              /\ LET yielded ==
                        ledger[n].transactions[t].operations[store[k].op_in_tx + 1][2]
                 IN /\ store[k].op[2].amount = yielded.amount
                    /\ store[k].op[2].from = yielded.from
                    /\ store[k].op[2].to = yielded.to

C12_witness ==
    \E j, k \in 1..Len(store) :
        /\ store[j].transaction_id = store[k].transaction_id
        /\ store[j].op_in_tx = 0
        /\ store[k].op_in_tx = 1
        /\ store[j].op[2].amount = 5
        /\ store[k].op[2].amount = 7

\* operation x = <<block, transaction, operation>> comes before y
Before(x, y) ==
    \/ x[1] < y[1]
    \/ x[1] = y[1] /\ x[2] < y[2]
    \/ x[1] = y[1] /\ x[2] = y[2] /\ x[3] < y[3]

\* C13: within a run every operation goes through process_operation, and
\* so to its insert, after all operations before it in block, transaction
\* and operation order; an insert appends at most one record; and no
\* operation of a block is processed before the checkpoint of every
\* earlier block of the run is written
C13_inserts_in_order ==
    [][(pc = "tx" /\ now' # now) =>
          /\ \A x \in now : Before(x, <<block.block_num, txi, opi>>)
          /\ now' = now \cup {<<block.block_num, txi, opi>>}
          /\ \/ store' = store
             \/ /\ Len(store') = Len(store) + 1
                /\ SubSeq(store', 1, Len(store)) = store
                /\ store'[Len(store')].block_num = block.block_num
                /\ store'[Len(store')].op_in_tx = opi - 1
          /\ \A m \in blocks_start(requested, default_start)..(block.block_num - 1) :
                m \in written
      ]_vars

C13_witness ==
    /\ pc = "tx"
    /\ last.n = 2
    /\ last.outcome = "inserted"
    /\ 1 \in written
    /\ Len(store) >= 3
    /\ store[Len(store)].block_num = 2
    /\ store[1].block_num = 1

\* C14: the blocks whose number a run has stored are all the blocks the
\* stream has yielded and process_block has finished, without a gap, and
\* between two blocks the checkpoint is the number of the block just
\* finished, whether or not anything of it was recorded
C14_every_block_is_checkpointed ==
    /\ written = {m \in 1..MaxBlock :
                     blocks_start(requested, default_start) <= m /\ m < next}
    /\ (pc \in {"listening", "stopped"} /\ written # {}) => checkpoint = next - 1

C14_witness ==
    /\ pc = "listening"
    /\ checkpoint = next - 1
    /\ checkpoint \in written
    /\ Cardinality(OpsOf(checkpoint)) = 2
    /\ \A p \in OpsOf(checkpoint) :
          ~ Touches(ledger[checkpoint].transactions[p[1]].operations[p[2]])
    /\ store = << >>

\* C15 as claimed: get_tx_id is not called for a transaction of which no
\* event gets into the storage, as when the account of its only matching
\* operation cannot be resolved
C15_no_derivation_without_record ==
    (pc \in {"tx", "raised"} /\ last.raises # "WalletLocked" /\ derived > 0)
        => RecordsOfTx(block.block_num, txi) # {}

\* C15, amended: get_tx_id is called for a matching operation as soon as
\* the filter has accepted it, before the names are resolved and the memo
\* is decoded: once process_operation is through with a matching operation
\* the identifier of its transaction has been derived, also when the call
\* raised and nothing of the transaction is in the storage
C15_derivation_right_after_the_filter ==
    /\ [][(pc = "tx" /\ now' # now /\ Touches(CurrentOp)) => derived' >= 1]_vars
    /\ []((pc = "raised" /\ last.outcome = "raised") => derived >= 1)

C15_witness ==
    /\ pc = "raised"
    /\ last.raises = "AccountDoesNotExistsException"
    /\ LastOp[2].from = Ghost
    /\ derived = 1
    /\ RecordsOfTx(block.block_num, txi) = {}

\* C16: when an account of a matching operation cannot be resolved, the
\* call raises out of listen: nothing is inserted for the operation, the
\* run processes nothing more, and the checkpoint stays what it was
\* before the block
C16_unknown_account_ends_the_run ==
    /\ [][(pc = "tx" /\ now' # now
            /\ Touches(CurrentOp)
            /\ \/ AccountFails(CurrentOp[2].from)
               \/ AccountFails(CurrentOp[2].to))
          => (/\ pc' = "raised"
              /\ last'.raises = "AccountDoesNotExistsException"
              /\ store' = store
              /\ checkpoint' = checkpoint)]_vars
    /\ [][pc = "raised" =>
            (/\ pc' \in {"constructed", "listening", "raised", "killed"}
             /\ store' = store
             /\ checkpoint' = checkpoint
             /\ written' \in {written, {}})]_vars
    /\ []((pc = "raised" /\ last.raises = "AccountDoesNotExistsException") =>
            /\ last.n \notin written
            /\ Records(last.n, last.t, last.o) = {}
            /\ written # {} => checkpoint = last.n - 1)

C16_witness ==
    /\ pc = "raised"
    /\ last.raises = "AccountDoesNotExistsException"
    /\ LastOp[2].from = Me
    /\ LastOp[2].to = Ghost
    /\ last.n = 2
    /\ written = {1}
    /\ checkpoint = 1
    /\ Len(store) >= 1

\* C17 as claimed: a block without a transaction list makes process_block
\* fail, so its number is never stored as checkpoint
C17_malformed_block_is_refused ==
    \A n \in written : "transactions" \in DOMAIN ledger[n]

\* C17, amended: process_block takes a block without a transaction list for
\* a block without transactions: nothing is raised or inserted and listen
\* stores the block's number
C17_block_without_list_is_empty ==
    /\ [][(pc = "block" /\ "transactions" \notin DOMAIN block /\ pc' # "killed")
          => (/\ pc' = "listening"
              /\ checkpoint' = block.block_num
              /\ block.block_num \in written'
              /\ store' = store)]_vars
    /\ [](pc = "raised" => "transactions" \in DOMAIN block)

C17_witness ==
    /\ pc = "listening"
    /\ checkpoint \in written
    /\ "transactions" \notin DOMAIN ledger[checkpoint]

\* C18 as claimed: an instance given a start block, 0 included, requests
\* the stream from that block, not from the stored checkpoint
C18_given_start_block_is_used ==
    (pc = "listening" /\ given >= 0) => requested = given

\* payload p of the operation at (1-based) position i of a transaction
\* differs from the payload y the ledger yielded at most by the field
\* prefix, which it has only as first operation on a network whose prefix
\* is not "BTS", and by a field prefix in its memo dictionary, which it
\* has only with a signer that writes it
ChangedOnlyAsStated(p, y, i) ==
    /\ DOMAIN p \in {DOMAIN y, DOMAIN y \cup {"prefix"}}
    /\ \A f \in DOMAIN y \ {"memo"} : p[f] = y[f]
    /\ "prefix" \in DOMAIN p => (i = 1 /\ prefix # "BTS" /\ p.prefix = prefix)
    /\ "memo" \in DOMAIN y =>
          /\ p.memo.message = y.memo.message
          /\ DOMAIN p.memo \in {DOMAIN y.memo, DOMAIN y.memo \cup {"prefix"}}
          /\ "prefix" \in DOMAIN p.memo => signer = "marks_memo"

\* C19 as claimed: the block being processed is the block as yielded, and
\* every record holds the payload of its operation as yielded
C19_block_is_left_unchanged ==
    /\ block # NoBlock => block = ledger[block.block_num]
    /\ \A n \in 1..MaxBlock : \A t \in 1..Len(transactions_of(ledger[n])) :
          \A k \in RecordsOfTx(n, t) :
              store[k].op[2] =
                 ledger[n].transactions[t].operations[store[k].op_in_tx + 1][2]

\* C19, amended: the monitor writes into the yielded block in two places
\* only: every transaction handed on has block_num and timestamp of its
\* block added, and on a network whose prefix is not "BTS" the payload of
\* the first operation of a transaction whose identifier is derived has
\* the field prefix added; beyond that the dictionaries differ from the
\* yielded ones only by what Signed_Transaction writes into the memo
\* dictionaries it is handed.  A record holds the payload so changed: with
\* the field prefix exactly when it is the first operation on such a
\* network.
C19_block_changes_are_these ==
    /\ block # NoBlock =>
          /\ DOMAIN block = DOMAIN ledger[block.block_num]
          /\ block.timestamp = ledger[block.block_num].timestamp
          /\ Len(transactions_of(block)) = Len(transactions_of(ledger[block.block_num]))
          /\ \A t \in 1..Len(transactions_of(block)) :
                LET tx == block.transactions[t]
                    yielded == ledger[block.block_num].transactions[t]
                IN /\ DOMAIN tx \in {DOMAIN yielded,
                                     DOMAIN yielded \cup {"block_num", "timestamp"}}
                   /\ "block_num" \in DOMAIN tx =>
                         /\ tx.block_num = block.block_num
                         /\ tx.timestamp = block.timestamp
                   /\ tx.ref_block_num = yielded.ref_block_num
                   /\ tx.expiration = yielded.expiration
                   /\ Len(tx.operations) = Len(yielded.operations)
                   /\ \A i \in 1..Len(tx.operations) :
                         /\ tx.operations[i][1] = yielded.operations[i][1]
                         /\ ChangedOnlyAsStated(tx.operations[i][2],
                                                yielded.operations[i][2], i)
    /\ \A n \in 1..MaxBlock : \A t \in 1..Len(transactions_of(ledger[n])) :
          \A k \in RecordsOfTx(n, t) :
              /\ ChangedOnlyAsStated(
                    store[k].op[2],
                    ledger[n].transactions[t].operations[store[k].op_in_tx + 1][2],
                    store[k].op_in_tx + 1)
              /\ "prefix" \in DOMAIN store[k].op[2]
                    <=> (store[k].op_in_tx = 0 /\ prefix # "BTS")

C19_witness ==
    /\ prefix = "TEST"
    /\ signer = "marks_memo"
    /\ pc = "tx"
    /\ ledger[block.block_num].transactions[txi].operations[1] = OpTransferOther
    /\ block.transactions[txi].operations[1][2] =
          [OpTransferOther[2] EXCEPT !.memo = [message |-> "good", prefix |-> "TEST"]]
             @@ [prefix |-> "TEST"]
    /\ last.outcome = "inserted"
    /\ "prefix" \notin DOMAIN store[Len(store)].op[2]
    /\ "prefix" \in DOMAIN store[Len(store)].op[2].memo
    /\ \E k \in 1..Len(store) : "prefix" \in DOMAIN store[k].op[2]

\* C20: with the finite stream, a run of listen whose collaborators raise
\* nothing comes to the end of listen, and then the checkpoint is the
\* number of the last block of the stream
C20_listen_terminates ==
    /\ (pc = "listening") ~> (pc = "stopped" \/ (pc = "raised" /\ last.raises # None))
    /\ [](pc = "stopped" =>
            /\ written # {}
            /\ checkpoint = MaxBlock
            /\ written = blocks_start(requested, default_start)..MaxBlock)

C20_witness ==
    /\ pc = "stopped"
    /\ checkpoint = MaxBlock
    /\ written = 1..MaxBlock
    /\ last.raises = None
    /\ Len(store) >= 3

====
